---- MODULE Spec2Model ----
(***************************************************************************)
(* Model of the Streamlit PDF question-answering session of abc_1.py.      *)
(*                                                                         *)
(* One browser session owns st.session_state (qa_chain, chat_history) and  *)
(* the widget state of the file uploader (pdf_docs).  Every user action    *)
(* re-runs main() from top to bottom; an action of this model is one such  *)
(* run.  An exception that leaves main() is caught by the UI host, which   *)
(* shows it and keeps the session: the run stops where it was raised.      *)
(*                                                                         *)
(* Text is a sequence of one-character strings.                            *)
(***************************************************************************)
EXTENDS Integers, Sequences, FiniteSets, TLC

VARIABLES
    qa_chain,       \* st.session_state.qa_chain: None or the chain object
    chat_history,   \* st.session_state.chat_history: sequence of messages
    pdf_docs,       \* value of the file uploader widget
    raw_text,       \* local raw_text of the current run (<<>> when not computed)
    events,         \* calls and UI outputs of the last run of main(), in order
    exc,            \* exception that ended the last run of main(), or "none"
    transcript,     \* chat messages written by the last run (lines 59-63)
    nextId,         \* identity given to the next chain object constructed
    action,         \* the user action that triggered the last run
    prev,           \* session_state as it was when the last run started
    origin,         \* the run that assigned the current qa_chain
    successes       \* number of runs that reached st.success (line 90)

vars == <<qa_chain, chat_history, pdf_docs, raw_text, events, exc, transcript,
          nextId, action, prev, origin, successes>>

----------------------------------------------------------------------------
(* Bounds of the model *)

MaxDocs == 2        \* documents in one upload
MaxPages == 3       \* pages in one upload, over all its documents
MaxTurns == 2       \* successful asks kept in one chain's memory
MaxProcess == 2     \* chain objects constructed in one session

(* Program constants *)

chunk_size == 1000
chunk_overlap == 200
PreviewLen == 2000

----------------------------------------------------------------------------
(* Values *)

None == [type |-> "NoneType"]

NL == "\n"
SP == " "
separator == <<"\n">>

TAB == "\t"

\* the characters str.strip() removes (those with str.isspace() true) that a
\* string of this module can hold, in order: tab, newline, vertical tab, form
\* feed, carriage return, U+001C, U+001D, U+001E, U+001F, space, U+0085 and
\* U+00A0.  The whitespace beyond U+00FF (U+1680, U+2000 to U+200A, U+2028,
\* U+2029, U+202F, U+205F, U+3000) cannot be written in a string here and is
\* in no text of the model.
Whitespace == {TAB, NL, "", "\f", "\r", "", "", "", "", SP, "", " "}

IsSpace(c) == c \in Whitespace

Min(a, b) == IF a < b THEN a ELSE b

Last(s) == s[Len(s)]

Take(s, n) == SubSeq(s, 1, Min(n, Len(s)))

\* a page of a PDF, by what page.extract_text() returns for it
Page(t) == [isNone |-> FALSE, text |-> t]
NonePage == [isNone |-> TRUE, text |-> <<>>]

\* an uploaded file, by whether pdfplumber.open accepts it
Doc(pages) == [openable |-> TRUE, pages |-> pages]
Corrupt == [openable |-> FALSE, pages |-> <<>>]

Returned(v) == [exc |-> "none", value |-> v]
Raised(e) == [exc |-> e, value |-> None]

----------------------------------------------------------------------------
(* str.strip() *)

RECURSIVE lstrip(_)
lstrip(s) ==
    IF s = <<>> THEN <<>>
    ELSE IF IsSpace(Head(s)) THEN lstrip(Tail(s)) ELSE s

RECURSIVE rstrip(_)
rstrip(s) ==
    IF s = <<>> THEN <<>>
    ELSE IF IsSpace(s[Len(s)]) THEN rstrip(SubSeq(s, 1, Len(s) - 1)) ELSE s

\* the question tested as typed, without strip()
strip_missing(s) == s

strip(s) == rstrip(lstrip(s))

----------------------------------------------------------------------------
(* get_pdf_text, lines 18-24 *)

\* page.extract_text() or ""
ExtractOrEmpty(page) ==
    IF page.isNone \/ page.text = <<>> THEN <<>> ELSE page.text

\* the pages joined with a newline after each
RECURSIVE PagesLoop_newline(_, _)
PagesLoop_newline(pages, text) ==
    IF pages = <<>> THEN text
    ELSE PagesLoop_newline(Tail(pages),
                           text \o ExtractOrEmpty(Head(pages)) \o <<NL>>)

\* the inner loop, lines 22-23: text += page.extract_text() or ""
RECURSIVE PagesLoop(_, _)
PagesLoop(pages, text) ==
    IF pages = <<>> THEN text
    ELSE PagesLoop(Tail(pages), text \o ExtractOrEmpty(Head(pages)))

\* the outer loop, lines 20-21; pdfplumber.open raises on a file it cannot open
RECURSIVE DocsLoop(_, _)
DocsLoop(docs, text) ==
    IF docs = <<>> THEN Returned(text)
    ELSE IF ~Head(docs).openable THEN Raised("PDFSyntaxError")
    ELSE DocsLoop(Tail(docs), PagesLoop(Head(docs).pages, text))

get_pdf_text(docs) == DocsLoop(docs, <<>>)

----------------------------------------------------------------------------
(* get_text_chunks, lines 27-35: CharacterTextSplitter(separator="\n",      *)
(* chunk_size=1000, chunk_overlap=200, length_function=len).split_text     *)

\* text.split("\n")
RECURSIVE SplitLoop(_, _, _)
SplitLoop(text, cur, acc) ==
    IF text = <<>> THEN Append(acc, cur)
    ELSE IF Head(text) = NL THEN SplitLoop(Tail(text), <<>>, Append(acc, cur))
    ELSE SplitLoop(Tail(text), Append(cur, Head(text)), acc)

\* the splits of the text on the separator, the empty ones dropped
split_on_separator(text) ==
    SelectSeq(SplitLoop(text, <<>>, <<>>), LAMBDA s : s # <<>>)

\* separator.join(docs)
RECURSIVE join(_, _)
join(docs, sep) ==
    IF docs = <<>> THEN <<>>
    ELSE IF Len(docs) = 1 THEN Head(docs)
    ELSE Head(docs) \o sep \o join(Tail(docs), sep)

\* _join_docs: the joined text stripped; no chunk (<<>>) when nothing is left
join_docs(docs, sep) ==
    LET text == strip(join(docs, sep))
    IN  IF text = <<>> THEN <<>> ELSE <<text>>

SepLen(current_doc, sep, atLeast) ==
    IF Len(current_doc) > atLeast THEN Len(sep) ELSE 0

\* the while loop of _merge_splits: drop leading splits until the window fits
RECURSIVE PopLoop(_, _, _, _)
PopLoop(current_doc, total, len, sep) ==
    IF total > chunk_overlap
         \/ (total + len + SepLen(current_doc, sep, 0) > chunk_size /\ total > 0)
    THEN PopLoop(Tail(current_doc),
                 total - (Len(Head(current_doc)) + SepLen(current_doc, sep, 1)),
                 len, sep)
    ELSE [current_doc |-> current_doc, total |-> total]

\* the for loop of _merge_splits
RECURSIVE MergeLoop(_, _, _, _, _)
MergeLoop(splits, sep, docs, current_doc, total) ==
    IF splits = <<>> THEN docs \o join_docs(current_doc, sep)
    ELSE
      LET d == Head(splits)
          len == Len(d)
          over == total + len + SepLen(current_doc, sep, 0) > chunk_size
          flush == over /\ Len(current_doc) > 0
          docs2 == IF flush THEN docs \o join_docs(current_doc, sep) ELSE docs
          kept == IF flush THEN PopLoop(current_doc, total, len, sep)
                  ELSE [current_doc |-> current_doc, total |-> total]
          cur2 == Append(kept.current_doc, d)
      IN  MergeLoop(Tail(splits), sep, docs2, cur2,
                    kept.total + len + SepLen(cur2, sep, 1))

merge_splits(splits, sep) == MergeLoop(splits, sep, <<>>, <<>>, 0)

get_text_chunks(text) == merge_splits(split_on_separator(text), separator)

----------------------------------------------------------------------------
(* get_vectorstore, lines 38-41.  env says whether the embedding model can *)
(* be loaded.  FAISS.from_texts sizes the index by the first embedding, so *)
(* it raises IndexError when there is no text to embed.                    *)

\* an index build that accepts an empty corpus
get_vectorstore_empty_index(text_chunks, env) ==
    IF ~env.embeddings THEN Raised("OSError")
    ELSE Returned([type |-> "FAISS", texts |-> text_chunks])

get_vectorstore(text_chunks, env) ==
    IF ~env.embeddings THEN Raised("OSError")
    ELSE IF text_chunks = <<>> THEN Raised("IndexError")
    ELSE Returned([type |-> "FAISS", texts |-> text_chunks])

(* get_conversational_chain, lines 44-52.  env says whether ChatOpenAI can *)
(* be configured (API key present).  The chain starts with an empty        *)
(* ConversationBufferMemory of its own.                                    *)

get_conversational_chain(vectorstore, env, id) ==
    IF ~env.openai THEN Raised("ValidationError")
    ELSE Returned([type |-> "chain", id |-> id,
                   retriever |-> vectorstore, memory |-> <<>>])

\* truth value of st.session_state.qa_chain in line 97
Truthy(x) == x.type # "NoneType"

----------------------------------------------------------------------------
(* The chain call of line 56: Chain.__call__.  The chain loads chat_history *)
(* from its memory, retrieves, calls the hosted model, and only when the   *)
(* model has answered saves (human, question) and (ai, answer) to its      *)
(* memory.  The chat_history of the response is the memory's own message   *)
(* list, so it shows the two messages just saved.  llm is the outcome of   *)
(* the hosted-model call.                                                  *)

Message(type, content) == [type |-> type, content |-> content]

save_context(memory, question, answer) ==
    memory \o <<Message("human", question), Message("ai", answer)>>

chain_call(chain, question, llm) ==
    IF ~llm.ok THEN Raised("APIError")
    ELSE LET memory == save_context(chain.memory, question, llm.answer)
         IN  Returned([chain |-> [chain EXCEPT !.memory = memory],
                       question |-> question,
                       chat_history |-> memory,
                       answer |-> llm.answer])

(* handle_userinput, lines 55-63 *)

\* lines 60-63: the template the message is written with, {{MSG}} replaced
write_message(message) ==
    [template |-> IF message.type = "human" THEN "user_template"
                  ELSE "bot_template",
     MSG |-> message.content]

\* a chain that saves the question before the model has answered
handle_userinput_partial(user_question, llm, chain, history) ==
    LET asked == [chain EXCEPT !.memory =
                     chain.memory \o <<Message("human", user_question)>>]
    IN  IF ~llm.ok
        THEN [qa_chain |-> asked, chat_history |-> history,
              transcript |-> <<>>, exc |-> "APIError",
              events |-> <<"qa_chain", "exception">>]
        ELSE LET memory == save_context(chain.memory, user_question, llm.answer)
             IN  [qa_chain |-> [chain EXCEPT !.memory = memory],
                  chat_history |-> memory,
                  transcript |-> [i \in 1..Len(memory) |-> write_message(memory[i])],
                  exc |-> "none",
                  events |-> <<"qa_chain", "set_chat_history", "write">>]

handle_userinput(user_question, llm, chain, history) ==
    LET response == chain_call(chain, user_question, llm)
    IN  IF response.exc # "none"
        THEN [qa_chain |-> chain, chat_history |-> history,
              transcript |-> <<>>, exc |-> response.exc,
              events |-> <<"qa_chain", "exception">>]
        ELSE [qa_chain |-> response.value.chain,
              chat_history |-> response.value.chat_history,
              transcript |-> [i \in 1..Len(response.value.chat_history) |->
                                write_message(response.value.chat_history[i])],
              exc |-> "none",
              events |-> <<"qa_chain", "set_chat_history", "write">>]

----------------------------------------------------------------------------
(* main, lines 81-90: the run of a click on Process *)

\* a pipeline that assigns qa_chain before the index is built
process_documents_early_install(docs, env, id, chain) ==
    LET extracted == get_pdf_text(docs)
        text_chunks == get_text_chunks(extracted.value)
        vectorstore == get_vectorstore(text_chunks, env)
        early == [type |-> "chain", id |-> id,
                  retriever |-> vectorstore.value, memory |-> <<>>]
        shown == <<"get_pdf_text", "subheader", "code", "get_text_chunks">>
    IN  IF extracted.exc # "none"
        THEN [qa_chain |-> chain, raw_text |-> <<>>, exc |-> extracted.exc,
              events |-> <<"get_pdf_text", "exception">>]
        ELSE IF vectorstore.exc # "none"
        THEN [qa_chain |-> early, raw_text |-> extracted.value,
              exc |-> vectorstore.exc,
              events |-> shown \o <<"set_qa_chain", "get_vectorstore",
                                    "exception">>]
        ELSE [qa_chain |-> early, raw_text |-> extracted.value,
              exc |-> "none",
              events |-> shown \o <<"set_qa_chain", "get_vectorstore",
                                    "get_conversational_chain", "success">>]

\* a pipeline that drops the current handle when a step fails
process_documents_reset(docs, env, id, chain) ==
    LET extracted == get_pdf_text(docs)
        text_chunks == get_text_chunks(extracted.value)
        vectorstore == get_vectorstore(text_chunks, env)
        new_chain == get_conversational_chain(vectorstore.value, env, id)
        shown == <<"get_pdf_text", "subheader", "code", "get_text_chunks">>
    IN  IF extracted.exc # "none"
        THEN [qa_chain |-> None, raw_text |-> <<>>, exc |-> extracted.exc,
              events |-> <<"get_pdf_text", "exception">>]
        ELSE IF vectorstore.exc # "none"
        THEN [qa_chain |-> None, raw_text |-> extracted.value,
              exc |-> vectorstore.exc,
              events |-> shown \o <<"get_vectorstore", "exception">>]
        ELSE IF new_chain.exc # "none"
        THEN [qa_chain |-> None, raw_text |-> extracted.value,
              exc |-> new_chain.exc,
              events |-> shown \o <<"get_vectorstore",
                                    "get_conversational_chain", "exception">>]
        ELSE [qa_chain |-> new_chain.value, raw_text |-> extracted.value,
              exc |-> "none",
              events |-> shown \o <<"get_vectorstore",
                                    "get_conversational_chain",
                                    "set_qa_chain", "success">>]

process_documents(docs, env, id, chain) ==
    LET extracted == get_pdf_text(docs)
        text_chunks == get_text_chunks(extracted.value)
        vectorstore == get_vectorstore(text_chunks, env)
        new_chain == get_conversational_chain(vectorstore.value, env, id)
        shown == <<"get_pdf_text", "subheader", "code", "get_text_chunks">>
    IN  IF extracted.exc # "none"
        THEN [qa_chain |-> chain, raw_text |-> <<>>, exc |-> extracted.exc,
              events |-> <<"get_pdf_text", "exception">>]
        ELSE IF vectorstore.exc # "none"
        THEN [qa_chain |-> chain, raw_text |-> extracted.value,
              exc |-> vectorstore.exc,
              events |-> shown \o <<"get_vectorstore", "exception">>]
        ELSE IF new_chain.exc # "none"
        THEN [qa_chain |-> chain, raw_text |-> extracted.value,
              exc |-> new_chain.exc,
              events |-> shown \o <<"get_vectorstore",
                                    "get_conversational_chain", "exception">>]
        ELSE [qa_chain |-> new_chain.value, raw_text |-> extracted.value,
              exc |-> "none",
              events |-> shown \o <<"get_vectorstore",
                                    "get_conversational_chain",
                                    "set_qa_chain", "success">>]

(* main, lines 96-102: the run of a click on Ask *)

\* a form that asks whenever the question is not blank, handle or not
submit_question_unchecked(user_question, llm, chain, history) ==
    IF strip(user_question) # <<>>
    THEN IF Truthy(chain)
         THEN handle_userinput(user_question, llm, chain, history)
         ELSE [qa_chain |-> chain, chat_history |-> history,
               transcript |-> <<>>, exc |-> "TypeError",
               events |-> <<"qa_chain", "exception">>]
    ELSE [qa_chain |-> chain, chat_history |-> history, transcript |-> <<>>,
          exc |-> "none", events |-> <<"warning_question">>]

submit_question(user_question, llm, chain, history) ==
    IF Truthy(chain) /\ strip(user_question) # <<>>
    THEN handle_userinput(user_question, llm, chain, history)
    ELSE IF strip(user_question) = <<>>
    THEN [qa_chain |-> chain, chat_history |-> history, transcript |-> <<>>,
          exc |-> "none", events |-> <<"warning_question">>]
    ELSE [qa_chain |-> chain, chat_history |-> history, transcript |-> <<>>,
          exc |-> "none", events |-> <<"warning_document">>]

\* st.code(raw_text[:2000]) of line 85
Preview == Take(raw_text, PreviewLen)

----------------------------------------------------------------------------
(* Inputs *)

\* what the environment lets the pipeline do: load the embedding model,
\* configure the chat model
Envs == [embeddings : BOOLEAN, openai : BOOLEAN]

\* outcomes of the hosted-model call
Answers == {<<"x">>, <<"y">>}
LLMs == {[ok |-> FALSE, answer |-> <<>>]}
           \cup {[ok |-> TRUE, answer |-> a] : a \in Answers}

\* what the user types in the question field
Questions == {<<>>, <<SP>>, <<TAB, " ">>, <<"a">>, <<TAB, "b", SP>>}

\* what the user puts in the uploader during a session
SessionUploads ==
    { <<Corrupt>>,
      <<Doc(<<NonePage>>)>>,
      <<Doc(<<Page(<<NL>>)>>)>>,
      <<Doc(<<Page(<<TAB, "\r">>)>>)>>,
      <<Doc(<<Page(<<"a">>)>>)>>,
      <<Doc(<<Page(<<"a", NL>>), NonePage>>), Doc(<<Page(<<"b">>)>>)>>,
      <<Doc(<<Page(<<"a">>)>>), Corrupt>> }

\* every upload of at most MaxDocs documents and MaxPages pages
PageResults == {NonePage, Page(<<>>), Page(<<"a">>), Page(<<"b">>)}

FlatPages == UNION {[1..n -> PageResults] : n \in 0..MaxPages}

RECURSIVE SumSeq(_)
SumSeq(s) == IF s = <<>> THEN 0 ELSE Head(s) + SumSeq(Tail(s))

Sizes(n) ==
    {s \in UNION {[1..k -> 0..n] : k \in 1..MaxDocs} : SumSeq(s) = n}

Cut(flat, sizes) ==
    [i \in 1..Len(sizes) |->
        Doc(SubSeq(flat, SumSeq(SubSeq(sizes, 1, i - 1)) + 1,
                         SumSeq(SubSeq(sizes, 1, i))))]

OpenableUploads ==
    UNION {{Cut(flat, sizes) : sizes \in Sizes(Len(flat))} : flat \in FlatPages}

AllUploads ==
    OpenableUploads
      \cup {Append(u, Corrupt) : u \in {v \in OpenableUploads : Len(v) < MaxDocs}}
      \cup {<<Corrupt>>}

----------------------------------------------------------------------------
(* The session *)

Session == [qa_chain |-> qa_chain, chat_history |-> chat_history]

\* lines 71-74 of the first run
Init ==
    /\ qa_chain = None
    /\ chat_history = <<>>
    /\ pdf_docs = <<>>
    /\ raw_text = <<>>
    /\ events = <<>>
    /\ exc = "none"
    /\ transcript = <<>>
    /\ nextId = 1
    /\ action = [op |-> "open", question |-> <<>>]
    /\ prev = [qa_chain |-> None, chat_history |-> <<>>]
    /\ origin = [op |-> "open", exc |-> "none", events |-> <<>>]
    /\ successes = 0

\* the user changes the files of the uploader: a run with no button clicked
Upload(docs) ==
    /\ docs # pdf_docs
    /\ pdf_docs' = docs
    /\ raw_text' = <<>>
    /\ events' = <<>>
    /\ exc' = "none"
    /\ transcript' = <<>>
    /\ action' = [op |-> "upload", question |-> <<>>]
    /\ prev' = Session
    /\ UNCHANGED <<qa_chain, chat_history, nextId, origin, successes>>

\* the user clicks Process (line 81: only with files in the uploader)
Process ==
    /\ pdf_docs # <<>>
    /\ nextId <= MaxProcess
    /\ \E env \in Envs :
         LET run == process_documents(pdf_docs, env, nextId, qa_chain)
         IN  /\ qa_chain' = run.qa_chain
             /\ raw_text' = run.raw_text
             /\ events' = run.events
             /\ exc' = run.exc
             /\ nextId' = IF Truthy(run.qa_chain) /\ run.qa_chain.id = nextId
                           THEN nextId + 1 ELSE nextId
             /\ origin' = IF run.qa_chain # qa_chain
                           THEN [op |-> "process", exc |-> run.exc,
                                 events |-> run.events]
                           ELSE origin
             /\ successes' = IF Last(run.events) = "success"
                              THEN successes + 1 ELSE successes
    /\ transcript' = <<>>
    /\ action' = [op |-> "process", question |-> <<>>]
    /\ prev' = Session
    /\ UNCHANGED <<chat_history, pdf_docs>>

\* the user submits the question form
Submit(user_question) ==
    /\ Truthy(qa_chain) /\ strip(user_question) # <<>>
         => Len(qa_chain.memory) < 2 * MaxTurns
    /\ \E llm \in LLMs :
         LET run == submit_question(user_question, llm, qa_chain, chat_history)
         IN  /\ qa_chain' = run.qa_chain
             /\ chat_history' = run.chat_history
             /\ transcript' = run.transcript
             /\ events' = run.events
             /\ exc' = run.exc
    /\ raw_text' = <<>>
    /\ action' = [op |-> "ask", question |-> user_question]
    /\ prev' = Session
    /\ UNCHANGED <<pdf_docs, nextId, origin, successes>>

Next ==
    \/ \E docs \in SessionUploads \cup {<<>>} : Upload(docs)
    \/ Process
    \/ \E q \in Questions : Submit(q)

Spec == Init /\ [][Next]_vars

\* a session with any upload in the uploader, Process clicked
InitExtract ==
    /\ pdf_docs \in AllUploads
    /\ qa_chain = None
    /\ chat_history = <<>>
    /\ raw_text = <<>>
    /\ events = <<>>
    /\ exc = "none"
    /\ transcript = <<>>
    /\ nextId = 1
    /\ action = [op |-> "upload", question |-> <<>>]
    /\ prev = [qa_chain |-> None, chat_history |-> <<>>]
    /\ origin = [op |-> "open", exc |-> "none", events |-> <<>>]
    /\ successes = 0

SpecExtract == InitExtract /\ [][Process]_vars

----------------------------------------------------------------------------
(* Properties *)

\* the last run called the chain (line 56)
Asked == events # <<>> /\ Head(events) = "qa_chain"

\* number of times e occurs in the events of the last run
Count(e) == Cardinality({i \in 1..Len(events) : events[i] = e})

Warnings == Count("warning_question") + Count("warning_document")

\* a question with nothing but whitespace in it
IsBlank(q) == \A i \in 1..Len(q) : IsSpace(q[i])

\* the steps of a run of Process that goes through, in order
FullPipeline ==
    <<"get_pdf_text", "subheader", "code", "get_text_chunks", "get_vectorstore",
      "get_conversational_chain", "set_qa_chain", "success">>

\* the same chain object, whatever its memory holds
SameHandle(a, b) ==
    /\ Truthy(a) = Truthy(b)
    /\ Truthy(a) => a.id = b.id /\ a.retriever = b.retriever

\* a question that is not blank, asked in the current state, reaches the chain
AcceptsQuestions ==
    \A q \in Questions : \A llm \in LLMs :
        ~IsBlank(q) =>
            Head(submit_question(q, llm, qa_chain, chat_history).events) = "qa_chain"

\* C1: the chain is called only when a handle exists, and that handle was
\* assigned by a run of Process in which extraction, chunking, the index build
\* and the construction of the chain all went through.
C1_QueriedOnlyAfterSuccess ==
    Asked =>
        /\ Truthy(prev.qa_chain)
        /\ origin.op = "process"
        /\ origin.exc = "none"
        /\ origin.events = FullPipeline
        /\ prev.qa_chain.retriever.type = "FAISS"
        /\ prev.qa_chain.retriever.texts # <<>>

C1_Witness ==
    /\ Asked
    /\ exc = "none"
    /\ successes = 2
    /\ qa_chain.id = 2

\* C2: a successful ask leaves chat_history two entries longer than it was:
\* the entries it had, then (human, question), then the assistant's answer.
C2_AskAppendsTwo ==
    (action.op = "ask" /\ Asked /\ exc = "none") =>
        LET n == Len(prev.chat_history)
        IN  /\ Len(chat_history) = n + 2
            /\ SubSeq(chat_history, 1, n) = prev.chat_history
            /\ chat_history[n + 1] = Message("human", action.question)
            /\ chat_history[n + 2].type = "ai"

\* C3: an ask whose hosted-model call fails changes neither chat_history nor
\* the handle (its memory included), and the handle is still there, so the
\* next question that is not blank reaches the chain.
C3_FailedAskChangesNothing ==
    (action.op = "ask" /\ Asked /\ exc # "none") =>
        /\ chat_history = prev.chat_history
        /\ qa_chain = prev.qa_chain
        /\ Truthy(qa_chain)
        /\ AcceptsQuestions

C3_Witness ==
    /\ action.op = "ask"
    /\ Asked
    /\ exc = "APIError"
    /\ Len(chat_history) = 2
    /\ qa_chain.memory = chat_history

\* C4: right after a run of Process that goes through while a handle with a
\* conversation exists, there is a new handle with an empty memory, and
\* chat_history is empty.
C4_ProcessResetsHistory ==
    (action.op = "process" /\ exc = "none"
        /\ Truthy(prev.qa_chain) /\ prev.chat_history # <<>>) =>
        /\ Truthy(qa_chain)
        /\ qa_chain.id # prev.qa_chain.id
        /\ qa_chain.memory = <<>>
        /\ chat_history = <<>>

\* C5: a blank question never reaches the chain and changes neither the handle
\* nor chat_history, with or without a handle.
C5_BlankQuestionIsInert ==
    (action.op = "ask" /\ IsBlank(action.question)) =>
        /\ ~Asked
        /\ qa_chain = prev.qa_chain
        /\ chat_history = prev.chat_history

C5_Witness ==
    /\ action.op = "ask"
    /\ action.question = <<TAB, " ">>
    /\ Truthy(qa_chain)
    /\ chat_history # <<>>

\* C6: a run of Process whose chunking yields no chunk ends in the index build,
\* which raises; qa_chain is not assigned, the handle and chat_history are what
\* they were, and a handle that was there still takes questions.
C6_EmptyCorpusInstallsNothing ==
    (action.op = "process" /\ Count("get_text_chunks") = 1
        /\ get_text_chunks(raw_text) = <<>>) =>
        /\ exc # "none"
        /\ Count("set_qa_chain") = 0
        /\ Count("success") = 0
        /\ SubSeq(events, Len(events) - 1, Len(events))
             = <<"get_vectorstore", "exception">>
        /\ qa_chain = prev.qa_chain
        /\ chat_history = prev.chat_history
        /\ Truthy(prev.qa_chain) => AcceptsQuestions

C6_Witness ==
    /\ action.op = "process"
    /\ raw_text = <<TAB, "\r">>
    /\ exc = "IndexError"
    /\ Truthy(qa_chain)
    /\ chat_history # <<>>

\* C7: a run in which a step fails ends with a failure status written by the
\* controller; no exception leaves main().
C7_FailureReportedByController ==
    (events # <<>> /\ Count("exception") > 0) =>
        /\ exc = "none"
        /\ Last(events) \in {"error", "warning_question", "warning_document"}

\* C8: a submission with a blank question or without a handle writes exactly
\* one warning and does not call the chain; the question warning appears only
\* for a blank question and the document warning only without a handle; any
\* other submission writes no warning and calls the chain once.
C8_WarningsNameTheFailure ==
    action.op = "ask" =>
        LET blank == IsBlank(action.question)
            has == Truthy(prev.qa_chain)
        IN  /\ (blank \/ ~has) => Warnings = 1 /\ Count("qa_chain") = 0
            /\ Count("warning_question") > 0 => blank
            /\ Count("warning_document") > 0 => ~has
            /\ (~blank /\ has) => Warnings = 0 /\ Count("qa_chain") = 1

C8_Witness ==
    /\ action.op = "ask"
    /\ action.question = <<TAB, "b", SP>>
    /\ ~Truthy(prev.qa_chain)
    /\ events = <<"warning_document">>

\* C9: a handle exists exactly when some run of Process has gone through; the
\* handle is assigned only as the last step of the pipeline, before the success
\* message; runs of the question form and of the uploader keep the handle; a
\* handle that exists is never lost.
C9_HandleLifecycle ==
    /\ Truthy(qa_chain) <=> successes > 0
    /\ ~SameHandle(qa_chain, prev.qa_chain) =>
           action.op = "process" /\ events = FullPipeline /\ exc = "none"
    /\ Count("set_qa_chain") > 0 =>
           ~SameHandle(qa_chain, prev.qa_chain) /\ events = FullPipeline
    /\ Truthy(prev.qa_chain) => Truthy(qa_chain)

C9_Witness ==
    /\ action.op = "process"
    /\ exc = "PDFSyntaxError"
    /\ successes = 1
    /\ Truthy(qa_chain)
    /\ qa_chain.memory # <<>>

\* the pages of an upload, documents in upload order, pages in page order
RECURSIVE AllPages(_)
AllPages(docs) ==
    IF docs = <<>> THEN <<>> ELSE Head(docs).pages \o AllPages(Tail(docs))

\* the texts of the pages one after the other, nothing for a page without text
RECURSIVE ConcatTexts(_)
ConcatTexts(pages) ==
    IF pages = <<>> THEN <<>>
    ELSE (IF Head(pages).isNone THEN <<>> ELSE Head(pages).text)
            \o ConcatTexts(Tail(pages))

\* C10: for an upload of files that all open, get_pdf_text returns the page
\* texts in upload order and page order with nothing between them; a page
\* without text adds nothing and does not stop the extraction.
C10_TextInUploadAndPageOrder ==
    (action.op = "process" /\ \A i \in 1..Len(pdf_docs) : pdf_docs[i].openable) =>
        /\ Head(events) = "get_pdf_text"
        /\ events[2] # "exception"
        /\ raw_text = ConcatTexts(AllPages(pdf_docs))

C10_Witness ==
    /\ action.op = "process"
    /\ pdf_docs = <<Doc(<<Page(<<"b">>), NonePage>>), Doc(<<Page(<<"a">>)>>)>>
    /\ raw_text = <<"b", "a">>

====
